---- MODULE Spec2Model ----
(***************************************************************************)
(* A model of the affiliation enrichment pipeline of src/pipeline.py.      *)
(*                                                                         *)
(* A Python str is a sequence of one-character strings.  Python's None is  *)
(* the value None below, which is no sequence of characters.               *)
(***************************************************************************)
EXTENDS Integers, Sequences, FiniteSets, TLC

VARIABLES
    \* process_xml_and_generate_csv (pipeline.py:258-293)
    root,                    \* the parsed citation tree
    institute_data,          \* the reference table, a sequence of rows
    affiliation_name_cache,  \* the run's match cache
    article_data,            \* the fields insert_article_info read from the current article
    data,                    \* the rows appended so far
    pos,                     \* the loops' position: article, author, affiliation
    pc,                      \* "articles", "authors", "affiliations", "written", "aborted"
    error,                   \* the exception that ended the run, or None
    log,                     \* per processed affiliation: what the matcher saw and did
    \* one function applied to one drawn input (the function-level specifications)
    fn_in,                   \* the drawn arguments
    fn_out,                  \* the results of the calls made so far
    fn_pc                    \* "idle", "drawn", "called", "called_twice"

vars == <<root, institute_data, affiliation_name_cache, article_data, data, pos, pc,
          error, log,
          fn_in, fn_out, fn_pc>>

None == <<"None">>

\* The exceptions the modelled code can raise.
TypeError == <<"TypeError">>
IndexError == <<"IndexError">>
KeyError == <<"KeyError">>

Min(S) == CHOOSE x \in S : \A y \in S : x <= y
Max(S) == CHOOSE x \in S : \A y \in S : x >= y

(***************************************************************************)
(* Characters and the classes of EMAIL_PATTERN (pipeline.py:21):           *)
(*   [A-Za-z0-9._%+-]+@[A-Za-z0-9.-]+\.[A-Za-z]{2,}                        *)
(***************************************************************************)
Letters ==
    {"a","b","c","d","e","f","g","h","i","j","k","l","m",
     "n","o","p","q","r","s","t","u","v","w","x","y","z",
     "A","B","C","D","E","F","G","H","I","J","K","L","M",
     "N","O","P","Q","R","S","T","U","V","W","X","Y","Z"}
Digits == {"0","1","2","3","4","5","6","7","8","9"}
LocalChars == Letters \cup Digits \cup {".", "_", "%", "+", "-"}
DomainChars == Letters \cup Digits \cup {".", "-"}
TldChars == Letters
\* The characters str.strip removes (pipeline.py:178), those with str.isspace():
\* space, \t, \n, \r, \f, then \x0b and \x1c..\x1f written as the characters
\* themselves.  The texts of the model are ASCII; the isspace characters
\* above \x7f (\x85, \xa0, the Unicode spaces) are outside its alphabet.
Whitespace == {" ", "\t", "\n", "\r", "\f", "", "", "", "", ""}

\* The index after the longest run of characters of class C that starts at i.
RunEnd(s, i, C) ==
    Min({j \in i..(Len(s) + 1) : j = Len(s) + 1 \/ s[j] \notin C})

\* re: EMAIL_PATTERN matched at index i of s.  The index after the match, or 0
\* when the pattern does not match there.  The local part is greedy and must
\* be followed by "@"; the domain is greedy, so the dot that starts the
\* top-level domain is the last one followed by two letters.
EmailMatchEnd(s, i) ==
    LET le == RunEnd(s, i, LocalChars)
    IN  IF le = i \/ le > Len(s) \/ s[le] # "@" THEN 0
        ELSE
          LET ds == le + 1
              de == RunEnd(s, ds, DomainChars)
              dots == {k \in (ds + 1)..(de - 1) :
                          /\ s[k] = "."
                          /\ k + 2 <= Len(s)
                          /\ s[k + 1] \in TldChars
                          /\ s[k + 2] \in TldChars}
          IN  IF dots = {} THEN 0 ELSE RunEnd(s, Max(dots) + 1, TldChars)

\* re.findall(email_regex, text) from index from: the non-overlapping matches,
\* leftmost first.
RECURSIVE FindAllFrom(_, _)
FindAllFrom(s, from) ==
    LET starts == {i \in from..Len(s) : EmailMatchEnd(s, i) # 0}
    IN  IF starts = {} THEN << >>
        ELSE LET i == Min(starts)
                 e == EmailMatchEnd(s, i)
             IN  <<SubSeq(s, i, e - 1)>> \o FindAllFrom(s, e)

findall(s) == FindAllFrom(s, 1)

\* str.replace(old, new) for a non-empty old: every non-overlapping occurrence,
\* left to right, the replaced text not rescanned.
RECURSIVE replace(_, _, _)
replace(s, old, new) ==
    IF Len(s) < Len(old) THEN s
    ELSE IF SubSeq(s, 1, Len(old)) = old
         THEN new \o replace(SubSeq(s, Len(old) + 1, Len(s)), old, new)
         ELSE <<Head(s)>> \o replace(Tail(s), old, new)

\* str.strip()
strip(s) ==
    LET keep == {i \in 1..Len(s) : s[i] \notin Whitespace}
    IN  IF keep = {} THEN << >> ELSE SubSeq(s, Min(keep), Max(keep))

ElectronicAddress ==
    <<"E","l","e","c","t","r","o","n","i","c"," ",
      "a","d","d","r","e","s","s",":"," ">>

\* pipeline.py:169-176, the loop over found_emails[k..]
RECURSIVE RemoveEmails(_, _, _)
RemoveEmails(text, found_emails, k) ==
    IF k > Len(found_emails) THEN text
    ELSE LET email == found_emails[k]
             t1 == replace(text, ElectronicAddress \o email \o <<".">>, <<".">>)
             t2 == replace(t1, email, << >>)
         IN  RemoveEmails(t2, found_emails, k + 1)

\* pipeline.py:166-178, with found_emails the result of re.findall
EmailResult(affiliation_text, found_emails) ==
    IF found_emails = << >>
    THEN <<None, affiliation_text>>
    ELSE <<found_emails[1], strip(RemoveEmails(affiliation_text, found_emails, 1))>>

\* pipeline.py:158-178
extract_and_remove_email(affiliation_text) ==
    EmailResult(affiliation_text, findall(affiliation_text))

(***************************************************************************)
(* rapidfuzz, as pipeline.py:227-229 uses it.                              *)
(***************************************************************************)
Max2(a, b) == IF a >= b THEN a ELSE b

\* One row of the longest-common-subsequence table: acc holds the row's
\* entries for b[1..j-1] (after a leading 0), prev the row above.  The tests
\* on Len are always true: they make TLC compute a row before it is used.
RECURSIVE LcsRow(_, _, _, _, _)
LcsRow(prev, c, b, j, acc) ==
    IF j > Len(b) THEN acc
    ELSE LET v == IF c = b[j] THEN prev[j] + 1 ELSE Max2(prev[j + 1], acc[j])
             next == Append(acc, v)
         IN  IF Len(next) = j + 1 THEN LcsRow(prev, c, b, j + 1, next) ELSE next

RECURSIVE LcsFrom(_, _, _, _)
LcsFrom(a, b, i, prev) ==
    IF i > Len(a) THEN prev[Len(b) + 1]
    ELSE LET row == LcsRow(prev, a[i], b, 1, <<0>>)
         IN  IF Len(row) = Len(b) + 1 THEN LcsFrom(a, b, i + 1, row) ELSE -1

lcs_length(a, b) == LcsFrom(a, b, 1, [j \in 1..(Len(b) + 1) |-> 0])

\* fuzz.ratio: the normalized Indel similarity 100 * 2*lcs / (len1 + len2), a
\* float in the source; here in hundredths of a point, rounded down, which
\* keeps distinct scores distinct for len1 + len2 <= 140.
IndelRatio(s1, s2) ==
    IF Len(s1) + Len(s2) = 0 THEN 10000
    ELSE (20000 * lcs_length(s1, s2)) \div (Len(s1) + Len(s2))

\* The institution names and organization mentions of the inputs below.
n_MIT_Boston == <<"M","I","T"," ","B","o","s","t","o","n">>
n_MIT_Bostan == <<"M","I","T"," ","B","o","s","t","a","n">>
n_Oxford_Uni == <<"O","x","f","o","r","d"," ","U","n","i">>
o_MIT_Bostn == <<"M","I","T"," ","B","o","s","t","n">>
o_Oxford_Univ == <<"O","x","f","o","r","d"," ","U","n","i","v">>
o_Dept_of_Bio == <<"D","e","p","t"," ","o","f"," ","B","i","o">>

InstitutionNames == {n_MIT_Boston, n_MIT_Bostan, n_Oxford_Uni}
Mentions == {o_MIT_Bostn, o_Oxford_Univ, o_Dept_of_Bio, n_MIT_Boston, n_Oxford_Uni}

\* IndelRatio is a pure function: its values on the inputs' strings are
\* computed once and looked up afterwards (the membership test is always true;
\* it makes TLC compute the whole table).
RatioTable ==
    LET f == [p \in Mentions \X InstitutionNames |-> IndelRatio(p[1], p[2])]
    IN  IF f \in [Mentions \X InstitutionNames -> Int] THEN f ELSE f

ratio(s1, s2) ==
    IF <<s1, s2>> \in DOMAIN RatioTable THEN RatioTable[<<s1, s2>>] ELSE IndelRatio(s1, s2)

\* score_cutoff=90 (pipeline.py:228)
score_cutoff == 90

\* process.extractOne(org, choices, scorer=fuzz.ratio, score_cutoff=90) with no
\* processor: the first choice of the highest score that reaches the cutoff, as
\* <<choice, score, index>>, or None.
FirstBest(choices, score, good) ==
    IF good = {} THEN None
    ELSE LET best == Min({i \in good : \A k \in good : score[i] >= score[k]})
         IN  <<choices[best], score[best], best>>

AboveCutoff(choices, score) ==
    FirstBest(choices, score, {i \in 1..Len(choices) : score[i] >= score_cutoff * 100})

extractOne(query, choices) ==
    AboveCutoff(choices, [i \in 1..Len(choices) |-> ratio(query, choices[i])])

(***************************************************************************)
(* The tagged entities of a spaCy Doc: a sequence of [label, text].        *)
(***************************************************************************)
Reverse(seq) == [i \in 1..Len(seq) |-> seq[Len(seq) + 1 - i]]

RECURSIVE SelectTexts(_, _)
SelectTexts(ents, label) ==
    IF ents = << >> THEN << >>
    ELSE (IF Head(ents).label = label THEN <<Head(ents).text>> ELSE << >>)
         \o SelectTexts(Tail(ents), label)

\* dict: a function from keys to values
InCache(cache, org) == org \in DOMAIN cache
\* Variants of CachePut: one stores the mention instead of the matched name,
\* one writes the matched name over every entry.
CachePutMention(cache, org, v) ==
    [k \in (DOMAIN cache) \cup {org} |-> IF k = org THEN org ELSE cache[k]]
CachePutAll(cache, org, v) ==
    [k \in (DOMAIN cache) \cup {org} |-> v]
CachePut(cache, org, v) ==
    [k \in (DOMAIN cache) \cup {org} |-> IF k = org THEN v ELSE cache[k]]
EmptyCache == [k \in {} |-> None]

\* pipeline.py:221-235, the scoring loop from found_orgs[k]: best is
\* [match, org, score], scored the queries handed to extractOne so far.
\* A variant of Better that lets a later candidate win a tie.
BetterOrEqual(best, org, match) ==
    IF match # None /\ match[2] >= best.score
    THEN [match |-> match, org |-> org, score |-> match[2]]
    ELSE best

\* pipeline.py:231-235
Better(best, org, match) ==
    IF match # None /\ match[2] > best.score
    THEN [match |-> match, org |-> org, score |-> match[2]]
    ELSE best

RECURSIVE ScoreOrgs(_, _, _, _, _)
ScoreOrgs(found_orgs, k, affiliation_names, best, scored) ==
    IF k > Len(found_orgs) THEN [best |-> best, scored |-> scored]
    ELSE ScoreOrgs(found_orgs, k + 1, affiliation_names,
                   Better(best, found_orgs[k], extractOne(found_orgs[k], affiliation_names)),
                   Append(scored, found_orgs[k]))

\* A variant of CacheHits that looks up the first candidate only.
CacheHitsFirstOnly(found_orgs, affiliation_cache) ==
    {k \in 1..Len(found_orgs) : k = 1 /\ InCache(affiliation_cache, found_orgs[k])}

\* pipeline.py:213-215: the candidates found in the cache
CacheHits(found_orgs, affiliation_cache) ==
    {k \in 1..Len(found_orgs) : InCache(affiliation_cache, found_orgs[k])}

\* pipeline.py:237-241, with r the outcome of the scoring loop
ScoredResult(found_orgs, affiliation_cache, r) ==
    IF r.best.match # None
    THEN [grid |-> r.best.match[1], pubmed |-> r.best.org,
          cache |-> CachePut(affiliation_cache, r.best.org, r.best.match[1]),
          scored |-> r.scored]
    ELSE [grid |-> None, pubmed |-> found_orgs[1],
          cache |-> affiliation_cache, scored |-> r.scored]

\* pipeline.py:210-241, with found_orgs the ORG texts in reverse order and
\* hits the indices of those in the cache
MatchOrgs(found_orgs, affiliation_names, affiliation_cache, hits) ==
    IF Len(found_orgs) = 0
    THEN [grid |-> None, pubmed |-> None,
          cache |-> affiliation_cache, scored |-> << >>]
    ELSE IF hits # {}
    THEN [grid |-> affiliation_cache[found_orgs[Min(hits)]],
          pubmed |-> found_orgs[Min(hits)],
          cache |-> affiliation_cache, scored |-> << >>]
    ELSE ScoredResult(found_orgs, affiliation_cache,
                      ScoreOrgs(found_orgs, 1, affiliation_names,
                                [match |-> None, org |-> None, score |-> 0], << >>))

FoundOrgs(ents) == SelectTexts(Reverse(ents), "ORG")

\* pipeline.py:200-241.  The result is [grid, pubmed, cache, scored]: the
\* returned pair, the cache as the call leaves it, and the queries it scored.
extract_and_match_affiliation_name(ents, affiliation_names, affiliation_cache) ==
    MatchOrgs(FoundOrgs(ents), affiliation_names, affiliation_cache,
              CacheHits(FoundOrgs(ents), affiliation_cache))

(***************************************************************************)
(* String literals.                                                        *)
(***************************************************************************)
s_UK == <<"U","K">>
s_U_K == <<"U",".","K">>
s_USA == <<"U","S","A">>
s_U_S_A == <<"U",".","S",".","A">>
s_United_States_of_America == <<"U","n","i","t","e","d"," ","S","t","a","t","e","s"," ","o","f"," ","A","m","e","r","i","c","a">>
s_United_Kingdom == <<"U","n","i","t","e","d"," ","K","i","n","g","d","o","m">>
s_United_States == <<"U","n","i","t","e","d"," ","S","t","a","t","e","s">>
s_France == <<"F","r","a","n","c","e">>
s_Atlantis == <<"A","t","l","a","n","t","i","s">>

\* pipeline.py:181-197
RECURSIVE CountryFrom(_, _, _)
CountryFrom(rents, k, countries) ==
    IF k > Len(rents) THEN None
    ELSE LET ent == rents[k]
         IN  IF ent.label = "GPE" /\ ent.text \in {s_UK, s_U_K}
             THEN s_United_Kingdom
             ELSE IF ent.label = "GPE"
                     /\ ent.text \in {s_USA, s_U_S_A, s_United_States_of_America}
             THEN s_United_States
             ELSE IF ent.label = "GPE" /\ ent.text \in countries
             THEN ent.text
             ELSE CountryFrom(rents, k + 1, countries)

\* A variant of extract_affiliation_country that scans in document order.
extract_affiliation_country_forward(ents, countries) ==
    CountryFrom(ents, 1, countries)

extract_affiliation_country(ents, countries) ==
    CountryFrom(Reverse(ents), 1, countries)

\* A row of the reference table is [name, grid_id].
RECURSIVE SelectRows(_, _)
SelectRows(table, name) ==
    IF table = << >> THEN << >>
    ELSE (IF Head(table).name = name THEN <<Head(table)>> ELSE << >>)
         \o SelectRows(Tail(table), name)

\* pipeline.py:244-255.  [raised, value]: iloc[0] of an empty selection raises
\* IndexError.
get_grid_identifier(grid_affiliation_name, institute_table) ==
    IF grid_affiliation_name = None \/ grid_affiliation_name = << >>
    THEN [raised |-> None, value |-> None]
    ELSE LET matched_row == SelectRows(institute_table, grid_affiliation_name)
         IN  IF matched_row = << >>
             THEN [raised |-> IndexError, value |-> None]
             ELSE [raised |-> None, value |-> matched_row[1].grid_id]

g_1 == <<"g","r","i","d",".","1">>
g_2 == <<"g","r","i","d",".","2">>
g_3 == <<"g","r","i","d",".","3">>
g_4 == <<"g","r","i","d",".","4">>
t_plain == <<"M","I","T">>
t_email == <<"M","I","T"," ","a","@","b",".","c","c">>

(***************************************************************************)
(* The Affiliation Enricher, pipeline.py:102-138.                          *)
(*                                                                         *)
(* An Affiliation element is [text, ents]: its text (None for an element   *)
(* without text) and the entities nlp tags in the cleaned text; the model  *)
(* takes the tagger's answer as given.  The zipcode column                 *)
(* (pipeline.py:117-120) is not modelled.  The result is [raised, fields,  *)
(* cache, match]: the exception raised or None, the affiliation columns,   *)
(* the cache as the call leaves it and what the matcher returned.          *)
(***************************************************************************)
COUNTRY_NAMES == {s_France, s_United_Kingdom, s_United_States}

RECURSIVE ColumnName(_)
ColumnName(table) ==
    IF table = << >> THEN << >> ELSE <<Head(table).name>> \o ColumnName(Tail(table))

\* The matcher was not reached.
NotMatched(affiliation_cache) ==
    [grid |-> None, pubmed |-> None, cache |-> affiliation_cache, scored |-> << >>]

NoFields ==
    [email |-> None, pubmed_name |-> None, grid_name |-> None,
     grid_id |-> None, country |-> None]

\* pipeline.py:128-138, with m the matcher's result and gid the resolver's
EnrichedFields(affiliation, em, m, gid) ==
    [raised |-> gid.raised,
     fields |-> [email |-> em[1], pubmed_name |-> m.pubmed,
                 grid_name |-> m.grid, grid_id |-> gid.value,
                 country |-> extract_affiliation_country(affiliation.ents, COUNTRY_NAMES)],
     cache |-> m.cache,
     match |-> m]

\* pipeline.py:131-133
ResolveAndFill(affiliation, institution_data, em, m) ==
    EnrichedFields(affiliation, em, m, get_grid_identifier(m.grid, institution_data))

extract_and_insert_affiliation_info(affiliation, institution_data, affiliation_cache) ==
    IF affiliation.text = None
    THEN \* re.findall(email_regex, None)
         [raised |-> TypeError, fields |-> NoFields,
          cache |-> affiliation_cache, match |-> NotMatched(affiliation_cache)]
    ELSE ResolveAndFill(affiliation, institution_data,
             extract_and_remove_email(affiliation.text),
             extract_and_match_affiliation_name(
                 affiliation.ents, ColumnName(institution_data), affiliation_cache))

(***************************************************************************)
(* insert_article_info, pipeline.py:53-84: the MESH identifiers of an      *)
(* article, from the attributes of its DescriptorName elements.  The other *)
(* fields are findtext results, which never raise.                         *)
(***************************************************************************)
d_1 == <<"D", "0", "0", "1">>

\* ", ".join(parts)
RECURSIVE join(_)
join(parts) ==
    IF Len(parts) = 1 THEN Head(parts)
    ELSE Head(parts) \o <<",", " ">> \o join(Tail(parts))

\* pipeline.py:71-79
insert_article_info(mesh_descriptor_names) ==
    IF mesh_descriptor_names = << >> THEN [raised |-> None, value |-> None]
    ELSE IF \E i \in 1..Len(mesh_descriptor_names) :
                "UI" \notin DOMAIN mesh_descriptor_names[i]
    THEN [raised |-> KeyError, value |-> None]
    ELSE [raised |-> None,
          value |-> join([i \in 1..Len(mesh_descriptor_names) |->
                             mesh_descriptor_names[i].UI])]

(***************************************************************************)
(* The inputs of a run.                                                    *)
(***************************************************************************)
MaxArticles == 2
MaxAuthors == 2
MaxAffiliations == 2

SeqsUpTo(S, n) == UNION {[1..k -> S] : k \in 0..n}

Ent(label, text) == [label |-> label, text |-> text]
Row(name, grid_id) == [name |-> name, grid_id |-> grid_id]

\* An Author element: whether it has a CollectiveName child, and how many
\* AffiliationInfo/Affiliation elements it holds.
Authors == [collective : BOOLEAN, affiliations : 0..MaxAffiliations]
\* A PubmedArticle element is its list of authors, the tree a list of articles.
Articles == SeqsUpTo(Authors, MaxAuthors)
Trees == SeqsUpTo(Articles, MaxArticles)

\* The MeshHeading/DescriptorName elements an article can hold, each given by
\* its attributes.
MeshHeadingLists == { <<[UI |-> d_1, MajorTopicYN |-> <<"N">>]>>,
                      <<[MajorTopicYN |-> <<"N">>]>>,
                      <<[UI |-> d_1, MajorTopicYN |-> <<"N">>], [MajorTopicYN |-> <<"N">>]>> }

\* What an Affiliation element can hold.
Affiliations ==
    { [text |-> t_email, ents |-> <<Ent("ORG", o_MIT_Bostn)>>],
      [text |-> t_plain, ents |-> <<Ent("ORG", o_Oxford_Univ), Ent("GPE", s_UK),
                                    Ent("ORG", o_MIT_Bostn)>>],
      [text |-> t_plain, ents |-> <<Ent("ORG", o_Dept_of_Bio), Ent("GPE", s_France)>>],
      [text |-> None, ents |-> << >>] }

\* institutes.csv
Tables ==
    { <<Row(n_MIT_Boston, g_1), Row(n_MIT_Bostan, g_2), Row(n_Oxford_Uni, g_3)>>,
      <<Row(n_MIT_Bostan, g_2), Row(n_Oxford_Uni, g_3), Row(n_MIT_Boston, g_1),
        Row(n_Oxford_Uni, g_4)>> }

(***************************************************************************)
(* process_xml_and_generate_csv, pipeline.py:258-293.                      *)
(***************************************************************************)
FnIdle == fn_in = None /\ fn_out = << >> /\ fn_pc = "idle"

Init ==
    /\ root \in Trees
    /\ institute_data \in Tables
    /\ affiliation_name_cache = EmptyCache
    /\ article_data = None
    /\ data = << >>
    /\ pos = [article |-> 0, author |-> 0, affiliation |-> 0]
    /\ pc = "articles"
    /\ error = None
    /\ log = << >>
    /\ FnIdle

\* A variant of is_collective that never skips an author.
never_collective(author) == FALSE

\* pipeline.py:275
is_collective(author) == author.collective

CurrentArticle == root[pos.article]
CurrentAuthor == CurrentArticle[pos.author]

\* pipeline.py:270-271: the next article, insert_article_info returned r
ArticleRead(r) ==
    /\ r.raised = None
    /\ article_data' = r.value

NextArticle ==
    /\ pc = "articles"
    /\ pos.article < Len(root)
    /\ \E mesh_descriptor_names \in MeshHeadingLists :
         ArticleRead(insert_article_info(mesh_descriptor_names))
    /\ pos' = [article |-> pos.article + 1, author |-> 0, affiliation |-> 0]
    /\ pc' = "authors"
    /\ UNCHANGED <<root, institute_data, affiliation_name_cache, data, error, log,
                   fn_in, fn_out, fn_pc>>

\* insert_article_info raised: r carries the exception
ArticleRaised(r) ==
    /\ r.raised # None
    /\ error' = r.raised

\* pipeline.py:271 raises (line 76): nothing catches it, the run ends without a CSV
AbortArticle ==
    /\ pc = "articles"
    /\ pos.article < Len(root)
    /\ \E mesh_descriptor_names \in MeshHeadingLists :
         ArticleRaised(insert_article_info(mesh_descriptor_names))
    /\ pos' = [article |-> pos.article + 1, author |-> 0, affiliation |-> 0]
    /\ pc' = "aborted"
    /\ UNCHANGED <<root, institute_data, affiliation_name_cache, article_data, data, log,
                   fn_in, fn_out, fn_pc>>

\* pipeline.py:291-293, after the last article
WriteCsv ==
    /\ pc = "articles"
    /\ pos.article = Len(root)
    /\ pc' = "written"
    /\ UNCHANGED <<root, institute_data, affiliation_name_cache, article_data, data, pos,
                   error, log,
                   fn_in, fn_out, fn_pc>>

\* pipeline.py:273-276, an author with a CollectiveName: continue
SkipCollective ==
    /\ pc = "authors"
    /\ pos.author < Len(CurrentArticle)
    /\ is_collective(CurrentArticle[pos.author + 1])
    /\ pos' = [pos EXCEPT !.author = pos.author + 1]
    /\ UNCHANGED <<root, institute_data, affiliation_name_cache, article_data, data, pc,
                   error, log,
                   fn_in, fn_out, fn_pc>>

\* pipeline.py:273-279, any other author
NextAuthor ==
    /\ pc = "authors"
    /\ pos.author < Len(CurrentArticle)
    /\ ~is_collective(CurrentArticle[pos.author + 1])
    /\ pos' = [pos EXCEPT !.author = pos.author + 1, !.affiliation = 0]
    /\ pc' = "affiliations"
    /\ UNCHANGED <<root, institute_data, affiliation_name_cache, article_data, data,
                   error, log,
                   fn_in, fn_out, fn_pc>>

\* the author loop ends
EndAuthors ==
    /\ pc = "authors"
    /\ pos.author = Len(CurrentArticle)
    /\ pc' = "articles"
    /\ UNCHANGED <<root, institute_data, affiliation_name_cache, article_data, data, pos,
                   error, log,
                   fn_in, fn_out, fn_pc>>

LogEntry(affiliation, r) ==
    [ents |-> affiliation.ents, cache_before |-> affiliation_name_cache,
     raised |-> r.raised, match |-> r.match]

\* pipeline.py:282-289: the call returned r, the row is appended
RowAppended(affiliation, r) ==
    /\ r.raised = None
    /\ data' = Append(data,
          [article |-> pos.article, author |-> pos.author,
           affiliation |-> pos.affiliation + 1, article_data |-> article_data,
           fields |-> r.fields])
    /\ affiliation_name_cache' = r.cache
    /\ log' = Append(log, LogEntry(affiliation, r))

\* pipeline.py:281-289, one affiliation enriched and its row appended
ProcessAffiliation ==
    /\ pc = "affiliations"
    /\ pos.affiliation < CurrentAuthor.affiliations
    /\ \E affiliation \in Affiliations :
         RowAppended(affiliation,
             extract_and_insert_affiliation_info(
                 affiliation, institute_data, affiliation_name_cache))
    /\ pos' = [pos EXCEPT !.affiliation = pos.affiliation + 1]
    /\ UNCHANGED <<root, institute_data, article_data, pc, error, fn_in, fn_out, fn_pc>>

\* the call raised: r carries the exception
Raised(affiliation, r) ==
    /\ r.raised # None
    /\ error' = r.raised
    /\ affiliation_name_cache' = r.cache
    /\ log' = Append(log, LogEntry(affiliation, r))

\* pipeline.py:282-287 raises: nothing catches it, the run ends without a CSV
AbortAffiliation ==
    /\ pc = "affiliations"
    /\ pos.affiliation < CurrentAuthor.affiliations
    /\ \E affiliation \in Affiliations :
         Raised(affiliation,
             extract_and_insert_affiliation_info(
                 affiliation, institute_data, affiliation_name_cache))
    /\ pc' = "aborted"
    /\ UNCHANGED <<root, institute_data, article_data, data, pos, fn_in, fn_out, fn_pc>>

\* the affiliation loop ends
EndAffiliations ==
    /\ pc = "affiliations"
    /\ pos.affiliation = CurrentAuthor.affiliations
    /\ pc' = "authors"
    /\ UNCHANGED <<root, institute_data, affiliation_name_cache, article_data, data, pos,
                   error, log,
                   fn_in, fn_out, fn_pc>>

Next ==
    \/ NextArticle
    \/ AbortArticle
    \/ WriteCsv
    \/ SkipCollective
    \/ NextAuthor
    \/ EndAuthors
    \/ ProcessAffiliation
    \/ AbortAffiliation
    \/ EndAffiliations

Spec == Init /\ [][Next]_vars

(***************************************************************************)
(* The functions on their own: one input is drawn, the function is called. *)
(***************************************************************************)
PipelineIdle ==
    /\ root = << >>
    /\ institute_data = << >>
    /\ affiliation_name_cache = EmptyCache
    /\ article_data = None
    /\ data = << >>
    /\ pos = [article |-> 0, author |-> 0, affiliation |-> 0]
    /\ pc = "idle"
    /\ error = None
    /\ log = << >>

PipelineUnchanged ==
    UNCHANGED <<root, institute_data, affiliation_name_cache, article_data, data, pos, pc,
                error, log>>

\* ---- extract_and_match_affiliation_name, called twice in succession ----
MaxEnts == 3

MatchEnts == {Ent("ORG", m) : m \in Mentions} \cup {Ent("GPE", s_UK)}
NameLists == {ColumnName(t) : t \in Tables}

\* The caches a run can have built over the reference list names: any set of
\* mentions that match, each with the name extractOne gives it.
Matchable(names) == {m \in Mentions : extractOne(m, names) # None}
ReachableCaches(names) ==
    {[m \in S |-> extractOne(m, names)[1]] : S \in SUBSET Matchable(names)}

InitMatch ==
    /\ PipelineIdle
    /\ \E ents \in SeqsUpTo(MatchEnts, MaxEnts), names \in NameLists :
         \E cache \in ReachableCaches(names) :
            fn_in = [ents |-> ents, names |-> names, cache |-> cache]
    /\ fn_out = << >>
    /\ fn_pc = "drawn"

MatchFirst ==
    /\ fn_pc = "drawn"
    /\ fn_out' = <<extract_and_match_affiliation_name(fn_in.ents, fn_in.names, fn_in.cache)>>
    /\ fn_pc' = "called"
    /\ UNCHANGED fn_in
    /\ PipelineUnchanged

\* the same mentions again, with the cache the first call left
MatchAgain ==
    /\ fn_pc = "called"
    /\ fn_out' = Append(fn_out,
          extract_and_match_affiliation_name(fn_in.ents, fn_in.names, fn_out[1].cache))
    /\ fn_pc' = "called_twice"
    /\ UNCHANGED fn_in
    /\ PipelineUnchanged

NextMatch == MatchFirst \/ MatchAgain
SpecMatch == InitMatch /\ [][NextMatch]_vars

\* ---- extract_and_remove_email, called on a text and on what it leaves ----
MaxPieces == 5

e_a == <<"a","@","a",".","a","a">>
at_domain == <<"@","a",".","a","a">>

Pieces == {<<"a">>, <<" ">>, <<".">>, e_a, at_domain, ElectronicAddress}

RECURSIVE Concat(_)
Concat(ss) == IF ss = << >> THEN << >> ELSE Head(ss) \o Concat(Tail(ss))

Texts == {Concat(ps) : ps \in SeqsUpTo(Pieces, MaxPieces)}

InitEmail ==
    /\ PipelineIdle
    /\ fn_in \in Texts
    /\ fn_out = << >>
    /\ fn_pc = "drawn"

EmailFirst ==
    /\ fn_pc = "drawn"
    /\ fn_out' = <<extract_and_remove_email(fn_in)>>
    /\ fn_pc' = "called"
    /\ UNCHANGED fn_in
    /\ PipelineUnchanged

\* the extraction again, on the text the first call returned
EmailAgain ==
    /\ fn_pc = "called"
    /\ fn_out' = Append(fn_out, extract_and_remove_email(fn_out[1][2]))
    /\ fn_pc' = "called_twice"
    /\ UNCHANGED fn_in
    /\ PipelineUnchanged

NextEmail == EmailFirst \/ EmailAgain
SpecEmail == InitEmail /\ [][NextEmail]_vars

\* ---- extract_affiliation_country ----
MaxCountryEnts == 2

CountryTexts ==
    {s_UK, s_U_K, s_USA, s_U_S_A, s_United_States_of_America,
     s_France, s_United_Kingdom, s_Atlantis}
CountryEnts == {Ent(l, t) : l \in {"GPE", "ORG"}, t \in CountryTexts}
CountrySets == {COUNTRY_NAMES, {s_France, s_UK, s_USA}, {}}

InitCountry ==
    /\ PipelineIdle
    /\ \E ents \in SeqsUpTo(CountryEnts, MaxCountryEnts), countries \in CountrySets :
         fn_in = [ents |-> ents, countries |-> countries]
    /\ fn_out = << >>
    /\ fn_pc = "drawn"

CountryCall ==
    /\ fn_pc = "drawn"
    /\ fn_out' = <<extract_affiliation_country(fn_in.ents, fn_in.countries)>>
    /\ fn_pc' = "called"
    /\ UNCHANGED fn_in
    /\ PipelineUnchanged

NextCountry == CountryCall
SpecCountry == InitCountry /\ [][NextCountry]_vars

\* ---- get_grid_identifier ----
MaxRows == 3

GridIds == <<g_1, g_2, g_3, g_4>>
\* A table of the names ns, the row at index i with the identifier GridIds[i].
TableOf(ns) == [i \in 1..Len(ns) |-> Row(ns[i], GridIds[i])]
GridTables == {TableOf(ns) : ns \in SeqsUpTo(InstitutionNames, MaxRows)}
GridNames == {None, n_MIT_Boston, n_Oxford_Uni, n_MIT_Bostan}

InitGrid ==
    /\ PipelineIdle
    /\ \E name \in GridNames, table \in GridTables :
         fn_in = [name |-> name, table |-> table]
    /\ fn_out = << >>
    /\ fn_pc = "drawn"

GridCall ==
    /\ fn_pc = "drawn"
    /\ fn_out' = <<get_grid_identifier(fn_in.name, fn_in.table)>>
    /\ fn_pc' = "called"
    /\ UNCHANGED fn_in
    /\ PipelineUnchanged

NextGrid == GridCall
SpecGrid == InitGrid /\ [][NextGrid]_vars

(***************************************************************************)
(* The claims.                                                             *)
(***************************************************************************)
Pair(m) == <<m.grid, m.pubmed>>
Called == fn_pc \in {"called", "called_twice"}
Names == ColumnName(institute_data)

\* The affiliations that must give a row: <<article, author, affiliation>>.
RowSources(tree) ==
    {<<i, j, k>> \in (1..MaxArticles) \X (1..MaxAuthors) \X (1..MaxAffiliations) :
        /\ i <= Len(tree)
        /\ j <= Len(tree[i])
        /\ ~tree[i][j].collective
        /\ k <= tree[i][j].affiliations}

RECURSIVE SumAuthors(_)
SumAuthors(authors) ==
    IF authors = << >> THEN 0
    ELSE (IF Head(authors).collective THEN 0 ELSE Head(authors).affiliations)
         + SumAuthors(Tail(authors))

RECURSIVE SumArticles(_)
SumArticles(tree) ==
    IF tree = << >> THEN 0 ELSE SumAuthors(Head(tree)) + SumArticles(Tail(tree))

Source(row) == <<row.article, row.author, row.affiliation>>
DocumentOrder(a, b) ==
    \/ a[1] < b[1]
    \/ a[1] = b[1] /\ a[2] < b[2]
    \/ a[1] = b[1] /\ a[2] = b[2] /\ a[3] < b[3]

\* C1: a run that completes has written exactly one row per affiliation of each
\* non-collective author: the row count is the sum of those authors'
\* affiliation counts, collective authors give no row, and the rows are in
\* article, author, affiliation document order.
C1_OneRowPerAffiliation ==
    pc = "written" =>
        /\ Len(data) = SumArticles(root)
        /\ {Source(data[n]) : n \in 1..Len(data)} = RowSources(root)
        /\ \A m, n \in 1..Len(data) :
              m < n => DocumentOrder(Source(data[m]), Source(data[n]))

\* C1, witness: a completed run over two articles that wrote rows for both and
\* skipped a collective author who has affiliations.
C1_Witness ==
    /\ pc = "written"
    /\ Len(root) = 2
    /\ Len(data) >= 3
    /\ data[1].article = 1
    /\ data[Len(data)].article = 2
    /\ \E i \in 1..Len(root) : \E j \in 1..Len(root[i]) :
          root[i][j].collective /\ root[i][j].affiliations > 0

\* C2, as claimed: the matcher called a second time on the same mentions, with
\* the cache the first call left, returns the same pair and scores nothing,
\* also when the first call found no name scoring 90.
C2_SecondCallScoresNothing ==
    fn_pc = "called_twice" =>
        /\ Pair(fn_out[2]) = Pair(fn_out[1])
        /\ fn_out[2].scored = << >>

\* What the matcher returns for the entities ents with an empty cache.
Uncached(ents) == Pair(extract_and_match_affiliation_name(ents, Names, EmptyCache))

\* C3, as claimed: every affiliation of a run gets the pair the matcher returns
\* for it with an empty cache.
C3_CacheIsPureMemoization ==
    \A n \in 1..Len(log) :
        log[n].raised # TypeError => Pair(log[n].match) = Uncached(log[n].ents)

\* The first candidate of entry e, in reverse document order, that the cache
\* held when e was processed, as a one-entity document.
FirstCached(e) ==
    LET cached == {i \in 1..Len(e.ents) :
                      e.ents[i].label = "ORG" /\ e.ents[i].text \in DOMAIN e.cache_before}
    IN  <<e.ents[Max(cached)]>>

AnyCached(e) ==
    \E i \in 1..Len(e.ents) :
        e.ents[i].label = "ORG" /\ e.ents[i].text \in DOMAIN e.cache_before

\* C3, amended: an affiliation none of whose candidates is in the shared cache
\* gets the pair the matcher returns for it with an empty cache; an affiliation
\* with a cached candidate gets the pair the matcher returns, with an empty
\* cache, for the first cached candidate alone.
C3_MemoizedPerCandidate ==
    \A n \in 1..Len(log) :
        log[n].raised # TypeError =>
            Pair(log[n].match) =
                IF AnyCached(log[n]) THEN Uncached(FirstCached(log[n]))
                ELSE Uncached(log[n].ents)

\* C3, witness: a completed run in which a cache hit returned another pair
\* than the empty-cache matcher returns for the affiliation.
C3_Witness ==
    /\ pc = "written"
    /\ \E n \in 1..Len(log) :
          /\ AnyCached(log[n])
          /\ Pair(log[n].match) # Uncached(log[n].ents)

\* The last ORG entity of the drawn document whose text is a key of the drawn
\* cache: the first cached candidate in reverse document order.
CachedEnts == {i \in 1..Len(fn_in.ents) :
                  fn_in.ents[i].label = "ORG" /\ fn_in.ents[i].text \in DOMAIN fn_in.cache}

\* C4: when a candidate is a key of the cache, the call returns (cache[c], c)
\* for the first cached candidate c in reverse document order, scores no
\* candidate and leaves the cache unchanged.
C4_CacheHitShortCircuits ==
    (Called /\ CachedEnts # {}) =>
        /\ fn_out[1].pubmed = fn_in.ents[Max(CachedEnts)].text
        /\ fn_out[1].grid = fn_in.cache[fn_in.ents[Max(CachedEnts)].text]
        /\ fn_out[1].scored = << >>
        /\ fn_out[1].cache = fn_in.cache

\* C4, witness: a call with a cached candidate and, before it in reverse
\* document order, a candidate that is not cached.
C4_Witness ==
    /\ Called
    /\ CachedEnts # {}
    /\ \E i \in 1..Len(fn_in.ents) :
          /\ i > Max(CachedEnts)
          /\ fn_in.ents[i].label = "ORG"
          /\ fn_in.ents[i].text \notin DOMAIN fn_in.cache

MatchingRows == {i \in 1..Len(fn_in.table) : fn_in.table[i].name = fn_in.name}

\* C5, as claimed: get_grid_identifier returns None for the name None, and for
\* any other name it fails unless exactly one row of the table has that name.
C5_InconsistentTableFails ==
    Called =>
        /\ fn_in.name = None => fn_out[1] = [raised |-> None, value |-> None]
        /\ (fn_in.name # None /\ Cardinality(MatchingRows) # 1) =>
               fn_out[1].raised # None

\* C6, as claimed: every affiliation read has its row, and an exception raised
\* while enriching an affiliation does not end the run.
C6_FailureCaughtPerRow ==
    /\ Len(data) = Len(log)
    /\ \A n \in 1..Len(log) : log[n].raised # None => pc # "aborted"

\* C7, as claimed: extracting again from the text the first extraction
\* returned finds no email and returns that text unchanged.
C7_EmailExtractionIdempotent ==
    fn_pc = "called_twice" => fn_out[2] = <<None, fn_out[1][2]>>

\* The candidate/name pairs that reach the cutoff, for the drawn document and
\* reference list.
Qualifying(orgs) ==
    {q \in (1..Len(orgs)) \X (1..Len(fn_in.names)) :
        ratio(orgs[q[1]], fn_in.names[q[2]]) >= score_cutoff * 100}
PairScore(orgs, q) == ratio(orgs[q[1]], fn_in.names[q[2]])
\* q is the best pair: the highest score, the earlier candidate on a tie, and
\* for one candidate the earlier name.
IsBest(orgs, q) ==
    \A r \in Qualifying(orgs) :
        \/ PairScore(orgs, q) > PairScore(orgs, r)
        \/ /\ PairScore(orgs, q) = PairScore(orgs, r)
           /\ (q[1] < r[1] \/ (q[1] = r[1] /\ q[2] <= r[2]))

NoneCached(orgs) == \A k \in 1..Len(orgs) : orgs[k] \notin DOMAIN fn_in.cache

BestReturned(orgs, out, q) ==
    /\ out.grid = fn_in.names[q[2]]
    /\ out.pubmed = orgs[q[1]]
    /\ DOMAIN out.cache = (DOMAIN fn_in.cache) \cup {orgs[q[1]]}
    /\ Cardinality(DOMAIN out.cache) = Cardinality(DOMAIN fn_in.cache) + 1
    /\ out.cache[orgs[q[1]]] = fn_in.names[q[2]]
    /\ \A k \in DOMAIN fn_in.cache : out.cache[k] = fn_in.cache[k]

UncachedCall(orgs, out) ==
    (Len(orgs) > 0 /\ NoneCached(orgs)) =>
        /\ out.scored = orgs
        /\ Qualifying(orgs) = {} =>
              /\ out.grid = None
              /\ out.pubmed = orgs[1]
              /\ out.cache = fn_in.cache
        /\ Qualifying(orgs) # {} =>
              \E q \in Qualifying(orgs) : IsBest(orgs, q) /\ BestReturned(orgs, out, q)

\* C8: with no candidate in the cache the call scores every candidate and
\* returns (name, candidate) for the highest score of at least 90, the earlier
\* candidate in reverse document order on a tie, adding exactly the entry
\* cache[candidate] = name; with no score of at least 90 it returns
\* (None, first candidate in reverse order) and leaves the cache unchanged.
C8_BestMatchAboveCutoff ==
    Called => UncachedCall(FoundOrgs(fn_in.ents), fn_out[1])

\* C8, witness: two uncached candidates tie on the highest score and the
\* earlier one in reverse document order is returned.
C8_Witness ==
    /\ Called
    /\ NoneCached(FoundOrgs(fn_in.ents))
    /\ \E q, r \in Qualifying(FoundOrgs(fn_in.ents)) :
          /\ q[1] < r[1]
          /\ FoundOrgs(fn_in.ents)[q[1]] # FoundOrgs(fn_in.ents)[r[1]]
          /\ IsBest(FoundOrgs(fn_in.ents), q)
          /\ PairScore(FoundOrgs(fn_in.ents), q) = PairScore(FoundOrgs(fn_in.ents), r)
          /\ fn_out[1].pubmed = FoundOrgs(fn_in.ents)[q[1]]

Qualifies(ent) ==
    /\ ent.label = "GPE"
    /\ \/ ent.text \in {s_UK, s_U_K, s_USA, s_U_S_A, s_United_States_of_America}
       \/ ent.text \in fn_in.countries
CountryOf(ent) ==
    IF ent.text \in {s_UK, s_U_K} THEN s_United_Kingdom
    ELSE IF ent.text \in {s_USA, s_U_S_A, s_United_States_of_America} THEN s_United_States
    ELSE ent.text
QualifyingEnts == {i \in 1..Len(fn_in.ents) : Qualifies(fn_in.ents[i])}

\* C9: extract_affiliation_country returns the country of the last entity, in
\* document order, that is a geopolitical entity naming an alias or a canonical
\* country, the alias rules before the set membership, and None when no entity
\* qualifies.
C9_LastQualifyingCountry ==
    Called =>
        fn_out[1] = IF QualifyingEnts = {} THEN None
                    ELSE CountryOf(fn_in.ents[Max(QualifyingEnts)])

\* C9, witness: two qualifying entities of different countries, the last one an
\* alias that is also in the set of countries, and its alias rule applied.
C9_Witness ==
    /\ Called
    /\ Cardinality(QualifyingEnts) = 2
    /\ CountryOf(fn_in.ents[1]) # CountryOf(fn_in.ents[2])
    /\ fn_in.ents[2].text = s_UK
    /\ s_UK \in fn_in.countries
    /\ fn_out[1] = s_United_Kingdom

CacheSound ==
    \A k \in DOMAIN affiliation_name_cache :
        /\ \E i \in 1..Len(Names) : Names[i] = affiliation_name_cache[k]
        /\ ratio(k, affiliation_name_cache[k]) >= score_cutoff * 100

LookupsFindARow ==
    /\ error # IndexError
    /\ \A n \in 1..Len(log) :
          (log[n].raised # TypeError /\ log[n].match.grid # None) =>
              \E i \in 1..Len(institute_data) : institute_data[i].name = log[n].match.grid

CacheOnlyGrows ==
    /\ \A k \in DOMAIN affiliation_name_cache :
          /\ k \in DOMAIN affiliation_name_cache'
          /\ affiliation_name_cache'[k] = affiliation_name_cache[k]
    /\ Cardinality(DOMAIN affiliation_name_cache')
          <= Cardinality(DOMAIN affiliation_name_cache) + 1

\* C10: every value in the match cache is a name of the reference list that
\* scores at least 90 against its key; an entry once written is never changed
\* or removed and a step adds at most one entry; every canonical name handed
\* to get_grid_identifier has a row in the reference table, so the lookup never
\* fails for want of a row.
C10_CacheInvariant ==
    /\ [](CacheSound /\ LookupsFindARow)
    /\ [][CacheOnlyGrows]_vars

\* C10, witness: a completed run whose cache holds two entries and in which a
\* cached name was handed to get_grid_identifier.
C10_Witness ==
    /\ pc = "written"
    /\ Cardinality(DOMAIN affiliation_name_cache) = 2
    /\ \E n \in 1..Len(log) :
          /\ AnyCached(log[n])
          /\ log[n].match.grid # None

====
